---------------------------- MODULE Spec2Model ----------------------------
(***************************************************************************)
(* Model of streamlit_app.py: the keyword classifier (classify_auto), the  *)
(* title extractor (extract_media_posts), the template renderers           *)
(* (render_A, render_B_sections), the rewrite-delegate wrappers            *)
(* (rewrite_A_with_openai, rewrite_B_with_openai, generate_B_with_openai)  *)
(* and the page script with its "generate" button handler.                 *)
(*                                                                         *)
(* Text is a sequence of characters.  A character is written as a short    *)
(* ASCII name; Chinese characters are named by their pinyin:               *)
(*   li an      U+7ACB U+6848   (file a case)                              *)
(*   diao cha   U+8C03 U+67E5   (investigate)                              *)
(*   chu fa     U+5904 U+7F5A   (penalty)                                  *)
(*   tui shi    U+9000 U+5E02   (delisting)                                *)
(*   cai wu zao jia  U+8D22 U+52A1 U+9020 U+5047  (financial fraud)        *)
(*   xing shi4  U+5211 U+4E8B   (criminal)                                 *)
(*   zhong4 da feng xian  U+91CD U+5927 U+98CE U+9669  (major risk)        *)
(*   bao lei    U+7206 U+96F7   (blow-up)                                  *)
(*   wen xun    U+95EE U+8BE2   (inquiry)                                  *)
(*   jing shi3  U+8B66 U+793A   (warning)                                  *)
(*   su song    U+8BC9 U+8BBC   (lawsuit)                                  *)
(*   zhong cai2 U+4EF2 U+88C1   (arbitration)                              *)
(*   jian guan  U+76D1 U+7BA1   (regulator)                                *)
(*   zhang ting U+6DA8 U+505C, die ting U+8DCC U+505C (limit up / down)    *)
(*   di tian    U+5730 U+5929,  bao4 U+66B4, shan beng U+95EA U+5D29,      *)
(*   yi4 dong   U+5F02 U+52A8   (abnormal move)                            *)
(*   zi dong sheng cheng U+81EA U+52A8 U+751F U+6210 (auto-generated)      *)
(*   mo ban hua U+6A21 U+677F U+5316, tong zhi hua U+540C U+8D28 U+5316,   *)
(*   yi1 jian4 U+4E00 U+952E                                               *)
(*   zheng yi  U+4E89 U+8BAE, si U+6495, re sou U+70ED U+641C,             *)
(*   shua ping U+5237 U+5C4F, ji zhong1 fa jiao U+96C6 U+4E2D U+53D1       *)
(*   U+9175, yao yan U+8C23 U+8A00                                         *)
(*   gong si   U+516C U+53F8   (the default company name)                  *)
(*   lq rq     U+300A U+300B   (the title brackets)                        *)
(* A fixed piece of template prose is one token "lit:...".                 *)
(***************************************************************************)
EXTENDS Integers, Sequences, FiniteSets, TLC

VARIABLES
    \* ---- startup (module level, lines 24-30)
    CLIENT,         \* TRUE iff CLIENT is not None
    \* ---- widgets (st.session_state, lines 279-356)
    company, window, mode, out, media_text, platform_text, b_strategy,
    show, custom, use_ai_A, use_ai_B,
    \* ---- what the last script run rendered
    pc,             \* "idle": no output on the page, "done": the handler ran
    final_mode, signals, output, st_code, subheader, warnings, calls,
    \* ---- direct calls of the helper functions
    args, ret

vars == <<CLIENT, company, window, mode, out, media_text, platform_text,
          b_strategy, show, custom, use_ai_A, use_ai_B, pc, final_mode,
          signals, output, st_code, subheader, warnings, calls, args, ret>>

widgetVars == <<company, window, mode, out, media_text, platform_text,
                b_strategy, show, custom, use_ai_A, use_ai_B>>
runVars == <<pc, final_mode, signals, output, st_code, subheader, warnings,
             calls>>

\* an optional value: <<>> is None, <<v>> is the value v
None == <<>>
Some(v) == <<v>>

\* a helper function not yet returned / returned with value v
Pending == [returned |-> FALSE]
Returned(v) == [returned |-> TRUE, value |-> v]

-----------------------------------------------------------------------------
(* Bounds of the checked instances *)

MaxMediaLen == 2
MaxPlatformLen == 1
MaxExtractLen == 7
MaxRewriteLen == 2
MaxRenderLen == 3
MaxChanged == 4

\* the characters the checked texts are drawn from
ClassifyAlphabet == {"a", "i", "A", "li", "an", "bao", "lei", "wen", "xun"}
ExtractAlphabet == {"lq", "rq", "t", "\n"}
RewriteAlphabet == {" ", "x"}

TextsUpTo(alphabet, n) == UNION {[1..k -> alphabet] : k \in 0..n}

-----------------------------------------------------------------------------
(* str helpers *)

Whitespace == {" ", "\n"}

RECURSIVE lstrip(_)
lstrip(s) ==
    IF s # <<>> /\ Head(s) \in Whitespace THEN lstrip(Tail(s)) ELSE s

RECURSIVE rstrip(_)
rstrip(s) ==
    IF s # <<>> /\ s[Len(s)] \in Whitespace
    THEN rstrip(SubSeq(s, 1, Len(s) - 1)) ELSE s

\* str.strip()
strip(s) == rstrip(lstrip(s))

\* safe_strip(x) = (x or "").strip()
safe_strip(x) == strip(x)

\* str.lower(): only the Latin letters have a lower case
LowerChar(c) ==
    CASE c = "A" -> "a"
      [] c = "I" -> "i"
      [] OTHER -> c

lower(s) == [k \in 1..Len(s) |-> LowerChar(s[k])]

\* re.search of one literal alternative at position k of s
MatchesAt(s, k, kw) ==
    /\ k + Len(kw) - 1 <= Len(s)
    /\ SubSeq(s, k, k + Len(kw) - 1) = kw

\* bool(re.search("kw1|kw2|...", s)) for literal alternatives
re_search(kws, s) ==
    \E k \in 1..Len(s) : \E kw \in kws : MatchesAt(s, k, kw)

-----------------------------------------------------------------------------
(* classify_auto *)

AiLikeKeywords ==
    { <<"a", "i">>, <<"zi", "dong", "sheng", "cheng">>, <<"mo", "ban", "hua">>,
      <<"tong", "zhi", "hua">>, <<"yi1", "jian4", "sheng", "cheng">> }

SensitiveKeywords ==
    { <<"wen", "xun">>, <<"li", "an">>, <<"diao", "cha">>, <<"jing", "shi3">>,
      <<"chu", "fa">>, <<"su", "song">>, <<"zhong", "cai2">>, <<"zao", "jia">>,
      <<"tui", "shi">>, <<"bao", "lei">>, <<"cai", "wu", "zao", "jia">>,
      <<"jian", "guan">> }

BigMoveKeywords ==
    { <<"zhang", "ting">>, <<"die", "ting">>, <<"di", "tian">>,
      <<"tian", "di">>, <<"bao4", "die">>, <<"bao4", "zhang">>,
      <<"shan", "beng">>, <<"yi4", "dong">> }

EscalateKeywords ==
    { <<"li", "an">>, <<"diao", "cha">>, <<"chu", "fa">>, <<"tui", "shi">>,
      <<"cai", "wu", "zao", "jia">>, <<"xing", "shi4">>,
      <<"zhong4", "da", "feng", "xian">>, <<"bao", "lei">> }

SensitiveExtraKeywords ==
    { <<"wen", "xun">>, <<"jing", "shi3">>, <<"jian", "guan">> }

NoiseKeywords ==
    { <<"zheng", "yi">>, <<"si">>, <<"bao">>, <<"re", "sou">>,
      <<"shua", "ping">>, <<"ji", "zhong1", "fa", "jiao">>, <<"yao", "yan">> }

\* the signals dict of one scanned text
Signals(s) ==
    [ ai_like |-> re_search(AiLikeKeywords, s),
      sensitive |-> re_search(SensitiveKeywords, s),
      big_move |-> re_search(BigMoveKeywords, s) ]

\* a plausible slip: the sensitive test placed before the escalate test
classify_auto_sensitive_first(m, p) ==
    LET s == m \o p
        sig == Signals(s)
    IN  IF sig.sensitive \/ re_search(SensitiveExtraKeywords, s)
        THEN [mode |-> "sensitive", signals |-> sig]
        ELSE IF re_search(EscalateKeywords, s)
        THEN [mode |-> "escalate", signals |-> sig]
        ELSE IF sig.big_move \/ re_search(NoiseKeywords, s)
        THEN [mode |-> "noise", signals |-> sig]
        ELSE [mode |-> "stable", signals |-> sig]

\* a plausible slip: the ai_like signal counted as a noise trigger
classify_auto_ai_is_noise(m, p) ==
    LET s == m \o p
        sig == Signals(s)
    IN  IF re_search(EscalateKeywords, s)
        THEN [mode |-> "escalate", signals |-> sig]
        ELSE IF sig.sensitive \/ re_search(SensitiveExtraKeywords, s)
        THEN [mode |-> "sensitive", signals |-> sig]
        ELSE IF sig.big_move \/ sig.ai_like \/ re_search(NoiseKeywords, s)
        THEN [mode |-> "noise", signals |-> sig]
        ELSE [mode |-> "stable", signals |-> sig]

\* a plausible slip: escalation asked to need a second (sensitive-extra) keyword
classify_auto_two_signals(m, p) ==
    LET s == m \o p
        sig == Signals(s)
    IN  IF re_search(EscalateKeywords, s) /\ re_search(SensitiveExtraKeywords, s)
        THEN [mode |-> "escalate", signals |-> sig]
        ELSE IF sig.sensitive \/ re_search(SensitiveExtraKeywords, s)
        THEN [mode |-> "sensitive", signals |-> sig]
        ELSE IF sig.big_move \/ re_search(NoiseKeywords, s)
        THEN [mode |-> "noise", signals |-> sig]
        ELSE [mode |-> "stable", signals |-> sig]

\* classify_auto(media_text, platform_text) -> (mode, signals).
\* t, the lower-cased buffer, is computed and never read: every search reads
\* media_text + platform_text as typed.
classify_auto(m, p) ==
    LET t == lower(m \o <<"\n">> \o p)
        s == m \o p
        sig == Signals(s)
    IN  IF re_search(EscalateKeywords, s)
        THEN [mode |-> "escalate", signals |-> sig]
        ELSE IF sig.sensitive \/ re_search(SensitiveExtraKeywords, s)
        THEN [mode |-> "sensitive", signals |-> sig]
        ELSE IF sig.big_move \/ re_search(NoiseKeywords, s)
        THEN [mode |-> "noise", signals |-> sig]
        ELSE [mode |-> "stable", signals |-> sig]

-----------------------------------------------------------------------------
(* extract_media_posts, render_media_posts_sentence *)

\* the number of titles render_media_posts_sentence quotes: items[:3]
TopN == 3

\* position of the first "\n" of s, 0 when there is none
FirstNewline(s) ==
    IF \E k \in 1..Len(s) : s[k] = "\n"
    THEN CHOOSE k \in 1..Len(s) : s[k] = "\n" /\ \A j \in 1..(k - 1) : s[j] # "\n"
    ELSE 0

\* str.splitlines()
RECURSIVE splitlines(_)
splitlines(s) ==
    IF s = <<>> THEN <<>>
    ELSE LET k == FirstNewline(s)
         IN  IF k = 0 THEN <<s>>
             ELSE <<SubSeq(s, 1, k - 1)>> \o splitlines(SubSeq(s, k + 1, Len(s)))

\* re.search("lq(.+?)rq", ln): the leftmost opening bracket that is followed,
\* after at least one character, by a closing bracket; group(1) runs to the
\* nearest such closing bracket.  None when there is no match.
TitleMatch(ln) ==
    LET Closes(k) == {j \in (k + 2)..Len(ln) : ln[j] = "rq"}
        Opens == {k \in 1..Len(ln) : ln[k] = "lq" /\ Closes(k) # {}}
    IN  IF Opens = {} THEN None
        ELSE LET k == CHOOSE a \in Opens : \A b \in Opens : a <= b
                 j == CHOOSE a \in Closes(k) : \A b \in Closes(k) : a <= b
             IN  Some(SubSeq(ln, k + 1, j - 1))

\* [x for x in xs if x not already seen]: a first-seen-order deduplication
RECURSIVE Dedup(_)
Dedup(xs) ==
    IF xs = <<>> THEN <<>>
    ELSE LET rest == Dedup(SubSeq(xs, 1, Len(xs) - 1))
             x == xs[Len(xs)]
         IN  IF \E k \in 1..Len(rest) : rest[k] = x THEN rest ELSE Append(rest, x)

\* the loop of extract_media_posts over the stripped non-blank lines
RECURSIVE TitlesOf(_)
TitlesOf(lines) ==
    IF lines = <<>> THEN <<>>
    ELSE LET m == TitleMatch(Head(lines))
         IN  (IF m # None THEN <<m[1]>> ELSE <<>>) \o TitlesOf(Tail(lines))

\* the list comprehension: [ln.strip() for ln in ... if ln.strip()]
RECURSIVE StrippedNonBlank(_)
StrippedNonBlank(lines) ==
    IF lines = <<>> THEN <<>>
    ELSE (IF strip(Head(lines)) # <<>> THEN <<strip(Head(lines))>> ELSE <<>>)
            \o StrippedNonBlank(Tail(lines))

\* a plausible variant: the extractor with a first-seen-order deduplication
extract_media_posts_dedup(text) ==
    IF strip(text) = <<>> THEN <<>>
    ELSE Dedup(TitlesOf(StrippedNonBlank(splitlines(text))))

\* extract_media_posts(text)
extract_media_posts(text) ==
    IF strip(text) = <<>> THEN <<>>
    ELSE TitlesOf(StrippedNonBlank(splitlines(text)))

\* ", ".join-style: sep.join(["lq" + t + "rq" for t in tops])
RECURSIVE JoinTitles(_)
JoinTitles(tops) ==
    IF tops = <<>> THEN <<>>
    ELSE <<"lq">> \o Head(tops) \o <<"rq">>
            \o (IF Len(tops) > 1 THEN <<"lit:dunhao">> ELSE <<>>)
            \o JoinTitles(Tail(tops))

\* render_media_posts_sentence(items)
render_media_posts_sentence(items) ==
    IF items = <<>> THEN <<>>
    ELSE LET tops == SubSeq(items, 1, IF Len(items) < TopN THEN Len(items) ELSE TopN)
         IN  IF Len(items) = 1
             THEN <<"lit:media_single_title", "lq">> \o tops[1] \o <<"rq", "lit:period">>
             ELSE <<"lit:media_several_titles">> \o JoinTitles(tops) \o <<"lit:period">>

-----------------------------------------------------------------------------
(* render_A, render_B_sections *)

DefaultName == <<"gong", "si">>

\* the lead-in clause both renderers build (lines 94-96, 130-132)
Head_(company_, window_) ==
    LET name == IF company_ # <<>> THEN company_ ELSE DefaultName
        w == safe_strip(window_)
    IN  IF w = <<>>
        THEN <<"lit:in_period,">> \o name \o <<"lit:related_sentiment">>
        ELSE <<"lit:in_period(">> \o w \o <<"lit:),">> \o name \o <<"lit:related_sentiment">>

\* the tier whose fixed text a renderer uses: anything that is not stable,
\* noise or sensitive falls to the last branch
TemplateTier(mode_) ==
    IF mode_ \in {"stable", "noise", "sensitive"} THEN mode_ ELSE "escalate"

\* a plausible slip: the stable and noise paragraphs exchanged
render_A_swapped(company_, window_, mode_) ==
    Head_(company_, window_) \o
        << CASE mode_ = "stable" -> "lit:A_noise"
             [] mode_ = "noise" -> "lit:A_stable"
             [] OTHER -> "lit:A_" \o TemplateTier(mode_) >>

\* render_A(company, window, mode)
render_A(company_, window_, mode_) ==
    Head_(company_, window_) \o <<"lit:A_" \o TemplateTier(mode_)>>

Disclaimer == <<"lit:ai_like_disclaimer">>

\* a plausible variant: the disclaimer kept for the stable and noise tiers only
render_B_sections_low_tiers_only(company_, window_, mode_, media_text_, platform_text_, signals_) ==
    LET tier == TemplateTier(mode_)
        media_hint == render_media_posts_sentence(extract_media_posts(media_text_))
    IN  [ overall |-> Head_(company_, window_) \o <<"lit:B_overall_" \o tier>>,
          media |-> media_hint \o <<"lit:B_media_" \o tier>>,
          platform |-> <<"lit:B_platform_" \o tier>> \o
                (IF signals_ # None /\ signals_[1].ai_like /\ tier \in {"stable", "noise"}
                 THEN Disclaimer ELSE <<>>),
          advice |-> <<"lit:B_advice_" \o tier>> ]

\* render_B_sections(company, window, mode, media_text, platform_text, signals)
render_B_sections(company_, window_, mode_, media_text_, platform_text_, signals_) ==
    LET tier == TemplateTier(mode_)
        media_hint == render_media_posts_sentence(extract_media_posts(media_text_))
    IN  [ overall |-> Head_(company_, window_) \o <<"lit:B_overall_" \o tier>>,
          media |-> media_hint \o <<"lit:B_media_" \o tier>>,
          platform |-> <<"lit:B_platform_" \o tier>> \o
                (IF signals_ # None /\ signals_[1].ai_like THEN Disclaimer ELSE <<>>),
          advice |-> <<"lit:B_advice_" \o tier>> ]

-----------------------------------------------------------------------------
(* Widget defaults: the values of the first script run (lines 279-356) *)

Sections == {"overall", "media", "platform", "advice"}
SectionOrder == <<"overall", "media", "platform", "advice">>
Tiers == {"stable", "noise", "sensitive", "escalate"}

DefaultWidgets ==
    /\ company = <<>>
    /\ window = <<>>
    /\ mode = "auto"
    /\ out = "A"
    /\ media_text = <<>>
    /\ platform_text = <<>>
    /\ b_strategy = "ai_generate"
    /\ show = [k \in Sections |-> TRUE]
    /\ custom = [k \in Sections |-> <<>>]
    /\ use_ai_A = FALSE
    /\ use_ai_B = FALSE

NoRun ==
    /\ pc = "idle"
    /\ final_mode = "-"
    /\ signals = None
    /\ output = <<>>
    /\ st_code = <<>>
    /\ subheader = "-"
    /\ warnings = <<>>
    /\ calls = <<>>

-----------------------------------------------------------------------------
(* The rewrite delegate: CLIENT.responses.create and the three wrappers *)

\* what one call of CLIENT.responses.create does: it raises, or it returns a
\* response whose output_text is blank (None, empty or white space) or a text
Responses == {"raise", "blank", "text"}

\* (resp.output_text or "").strip()
OutputText(resp, produced) ==
    strip(CASE resp = "text" -> produced
            [] resp = "blank" -> <<" ">>
            [] OTHER -> <<>>)

Polished(text) == <<"lit:polished(">> \o text \o <<"lit:)">>

\* the record of one call of the delegate: its caller and what it did
Call(to, resp) == [to |-> to, resp |-> resp]

\* a plausible slip: a blank response handed on instead of the original text
rewrite_A_with_openai_blank(text, resp) ==
    IF strip(text) = <<>> \/ ~CLIENT
    THEN [out |-> text, warnings |-> <<>>, calls |-> <<>>]
    ELSE IF resp = "raise"
    THEN [out |-> text, warnings |-> <<"warn:A_rewrite_failed">>, calls |-> <<Call("A", resp)>>]
    ELSE [out |-> OutputText(resp, Polished(text)), warnings |-> <<>>, calls |-> <<Call("A", resp)>>]

\* rewrite_A_with_openai(text, style_profile, model_name); resp is what the
\* call of the delegate does, if it is made
rewrite_A_with_openai(text, resp) ==
    IF strip(text) = <<>> \/ ~CLIENT
    THEN [out |-> text, warnings |-> <<>>, calls |-> <<>>]
    ELSE IF resp = "raise"
    THEN [out |-> text, warnings |-> <<"warn:A_rewrite_failed">>, calls |-> <<Call("A", resp)>>]
    ELSE LET o == OutputText(resp, Polished(text))
         IN  [out |-> IF o # <<>> THEN o ELSE text, warnings |-> <<>>, calls |-> <<Call("A", resp)>>]

\* rewrite_B_with_openai(text, section_type, style_profile, model_name)
rewrite_B_with_openai(text, section_type, resp) ==
    IF strip(text) = <<>> \/ ~CLIENT
    THEN [out |-> text, warnings |-> <<>>, calls |-> <<>>]
    ELSE IF resp = "raise"
    THEN [out |-> text, warnings |-> <<"warn:B_rewrite_failed:" \o section_type>>,
          calls |-> <<Call(section_type, resp)>>]
    ELSE LET o == OutputText(resp, Polished(text))
         IN  [out |-> IF o # <<>> THEN o ELSE text, warnings |-> <<>>,
              calls |-> <<Call(section_type, resp)>>]

\* generate_B_with_openai(company, window, mode, media_text, platform_text, model_name)
generate_B_with_openai(company_, window_, mode_, media_text_, platform_text_, resp) ==
    IF ~CLIENT
    THEN [out |-> <<>>, warnings |-> <<>>, calls |-> <<>>]
    ELSE IF resp = "raise"
    THEN [out |-> <<>>, warnings |-> <<"warn:B_generate_failed">>, calls |-> <<Call("generate_B", resp)>>]
    ELSE [out |-> OutputText(resp, <<"lit:generated_report_" \o mode_>>),
          warnings |-> <<>>, calls |-> <<Call("generate_B", resp)>>]

-----------------------------------------------------------------------------
(* The page script: widget edits and the "generate" button (lines 360-432) *)

Heading(k) == "lit:heading_" \o k
SectionType(k) == "type_" \o k
Placeholder == <<"lit:no_content_returned">>

\* "\n\n".join(parts)
RECURSIVE Join(_)
Join(parts) ==
    IF parts = <<>> THEN <<>>
    ELSE Head(parts) \o (IF Len(parts) > 1 THEN <<"\n", "\n">> ELSE <<>>)
            \o Join(Tail(parts))

\* one entry of the long form: heading + "\n" + body
Entry(k, body) == <<Heading(k), "\n">> \o body

\* the four templated sections as the ai_generate branch prints them without
\* a client (lines 385-390)
FourSections(sections) ==
    Join([n \in 1..4 |-> Entry(SectionOrder[n], sections[SectionOrder[n]])])

\* a plausible slip: pick without the override test
pick_no_override(sections, key, custom_text, resp) ==
    IF use_ai_B /\ CLIENT
    THEN rewrite_B_with_openai(sections[key], SectionType(key), resp)
    ELSE [out |-> sections[key], warnings |-> <<>>, calls |-> <<>>]

\* pick(key, custom_text, section_type), lines 407-418
pick(sections, key, custom_text, resp) ==
    IF strip(custom_text) # <<>>
    THEN [out |-> strip(custom_text), warnings |-> <<>>, calls |-> <<>>]
    ELSE IF use_ai_B /\ CLIENT
    THEN rewrite_B_with_openai(sections[key], SectionType(key), resp)
    ELSE [out |-> sections[key], warnings |-> <<>>, calls |-> <<>>]

\* xs[1] + xs[2] + ... for a list of lists
RECURSIVE Flatten(_)
Flatten(xs) == IF xs = <<>> THEN <<>> ELSE Head(xs) \o Flatten(Tail(xs))

\* lines 420-428: the shown sections, picked in order; resp[k] is what the
\* delegate does when it is called for section k
TemplatePath(sections, resp) ==
    LET shown == SelectSeq(SectionOrder, LAMBDA k : show[k])
        picks == [k \in Sections |-> pick(sections, k, custom[k], resp[k])]
    IN  [ output |-> [n \in 1..Len(shown) |-> Entry(shown[n], picks[shown[n]].out)],
          warnings |-> Flatten([n \in 1..Len(shown) |-> picks[shown[n]].warnings]),
          calls |-> Flatten([n \in 1..Len(shown) |-> picks[shown[n]].calls]) ]

\* the values the handler computes first (lines 362-365)
Decided ==
    IF mode = "auto"
    THEN LET c == classify_auto(media_text, platform_text)
         IN  [final_mode |-> c.mode, signals |-> Some(c.signals)]
    ELSE [final_mode |-> mode, signals |-> None]

\* the sections for which this run of the handler can reach the delegate
\* (the short form and generate_B use the entry of "overall")
DelegateKeys ==
    IF ~CLIENT THEN {}
    ELSE IF out = "A" THEN (IF use_ai_A THEN {"overall"} ELSE {})
    ELSE IF b_strategy = "ai_generate" THEN {"overall"}
    ELSE IF use_ai_B THEN {k \in Sections : show[k]}
    ELSE {}

\* what the delegate may do when it is called for section k
DelegateRuns(k) == IF k \in DelegateKeys THEN Responses ELSE {"text"}

\* if st.button(...): one click, the whole handler.  The click is taken on the
\* page without output: a click on a page that shows output reruns the same
\* handler on the same widget values and reaches the same pages.
BtnGenerate ==
    pc = "idle" /\
    LET d == Decided
        sections == render_B_sections(company, window, d.final_mode,
                                      media_text, platform_text, d.signals)
    IN
    \E r1 \in DelegateRuns("overall"), r2 \in DelegateRuns("media"),
       r3 \in DelegateRuns("platform"), r4 \in DelegateRuns("advice") :
      LET resp == [overall |-> r1, media |-> r2, platform |-> r3, advice |-> r4]
      IN
      /\ pc' = "done"
      /\ final_mode' = d.final_mode
      /\ signals' = d.signals
      /\ IF out = "A"
         THEN LET base == render_A(company, window, d.final_mode)
                  r == IF use_ai_A /\ CLIENT
                       THEN rewrite_A_with_openai(base, resp["overall"])
                       ELSE [out |-> base, warnings |-> <<>>, calls |-> <<>>]
              IN  /\ st_code' = r.out
                  /\ subheader' = "A"
                  /\ output' = <<>>
                  /\ warnings' = r.warnings
                  /\ calls' = r.calls
         ELSE IF b_strategy = "ai_generate"
         THEN IF ~CLIENT
              THEN /\ warnings' = <<"warn:ai_unavailable">>
                   /\ subheader' = "B_template_only"
                   /\ st_code' = FourSections(sections)
                   /\ output' = <<>>
                   /\ calls' = <<>>
              ELSE LET r == generate_B_with_openai(company, window, d.final_mode,
                                media_text, platform_text, resp["overall"])
                   IN  /\ subheader' = "B_ai_generated"
                       /\ st_code' = IF r.out # <<>> THEN r.out ELSE Placeholder
                       /\ output' = <<>>
                       /\ warnings' = r.warnings
                       /\ calls' = r.calls
         ELSE LET t == TemplatePath(sections, resp)
              IN  /\ subheader' = "B_template"
                  /\ output' = t.output
                  /\ st_code' = Join(t.output)
                  /\ warnings' = t.warnings
                  /\ calls' = t.calls
      /\ UNCHANGED <<CLIENT, widgetVars, args, ret>>

\* the values the operator types or selects in the checked instances
Companies == {<<>>, <<"X">>}
Windows == {<<>>, <<" ">>, <<"W">>}
Modes == {"auto"} \cup Tiers
TypedMedia == {<<>>, <<"li">>, <<"a">>}
TypedPlatform == {<<>>, <<"an">>, <<"i">>}
TypedCustom == {<<>>, <<" ">>, <<"c">>}

\* the number of widgets whose value is not the default
Changed ==
    Cardinality({k \in Sections : ~show[k]})
    + Cardinality({k \in Sections : custom[k] # <<>>})
    + (IF company # <<>> THEN 1 ELSE 0)
    + (IF window # <<>> THEN 1 ELSE 0)
    + (IF mode # "auto" THEN 1 ELSE 0)
    + (IF out # "A" THEN 1 ELSE 0)
    + (IF b_strategy # "ai_generate" THEN 1 ELSE 0)
    + (IF media_text # <<>> THEN 1 ELSE 0)
    + (IF platform_text # <<>> THEN 1 ELSE 0)
    + (IF use_ai_A THEN 1 ELSE 0)
    + (IF use_ai_B THEN 1 ELSE 0)

\* a widget edit reruns the script with the button not clicked: the page
\* shows the widgets and no output
Rerun ==
    /\ Changed' <= MaxChanged
    /\ pc' = "idle"
    /\ final_mode' = "-"
    /\ signals' = None
    /\ output' = <<>>
    /\ st_code' = <<>>
    /\ subheader' = "-"
    /\ warnings' = <<>>
    /\ calls' = <<>>
    /\ UNCHANGED <<CLIENT, args, ret>>

SetCompany ==
    /\ \E v \in Companies \ {company} : company' = v
    /\ UNCHANGED <<window, mode, out, media_text, platform_text, b_strategy,
                   show, custom, use_ai_A, use_ai_B>>
    /\ Rerun

SetWindow ==
    /\ \E v \in Windows \ {window} : window' = v
    /\ UNCHANGED <<company, mode, out, media_text, platform_text, b_strategy,
                   show, custom, use_ai_A, use_ai_B>>
    /\ Rerun

SetMode ==
    /\ \E v \in Modes \ {mode} : mode' = v
    /\ UNCHANGED <<company, window, out, media_text, platform_text, b_strategy,
                   show, custom, use_ai_A, use_ai_B>>
    /\ Rerun

SetOut ==
    /\ out' = (IF out = "A" THEN "B" ELSE "A")
    /\ UNCHANGED <<company, window, mode, media_text, platform_text, b_strategy,
                   show, custom, use_ai_A, use_ai_B>>
    /\ Rerun

SetMediaText ==
    /\ \E v \in TypedMedia \ {media_text} : media_text' = v
    /\ UNCHANGED <<company, window, mode, out, platform_text, b_strategy,
                   show, custom, use_ai_A, use_ai_B>>
    /\ Rerun

SetPlatformText ==
    /\ \E v \in TypedPlatform \ {platform_text} : platform_text' = v
    /\ UNCHANGED <<company, window, mode, out, media_text, b_strategy,
                   show, custom, use_ai_A, use_ai_B>>
    /\ Rerun

SetStrategy ==
    /\ b_strategy' = (IF b_strategy = "template" THEN "ai_generate" ELSE "template")
    /\ UNCHANGED <<company, window, mode, out, media_text, platform_text,
                   show, custom, use_ai_A, use_ai_B>>
    /\ Rerun

ToggleShow ==
    /\ \E k \in Sections : show' = [show EXCEPT ![k] = ~show[k]]
    /\ UNCHANGED <<company, window, mode, out, media_text, platform_text,
                   b_strategy, custom, use_ai_A, use_ai_B>>
    /\ Rerun

SetCustom ==
    /\ \E k \in Sections : \E v \in TypedCustom \ {custom[k]} :
            custom' = [custom EXCEPT ![k] = v]
    /\ UNCHANGED <<company, window, mode, out, media_text, platform_text,
                   b_strategy, show, use_ai_A, use_ai_B>>
    /\ Rerun

ToggleUseAiA ==
    /\ use_ai_A' = ~use_ai_A
    /\ UNCHANGED <<company, window, mode, out, media_text, platform_text,
                   b_strategy, show, custom, use_ai_B>>
    /\ Rerun

ToggleUseAiB ==
    /\ use_ai_B' = ~use_ai_B
    /\ UNCHANGED <<company, window, mode, out, media_text, platform_text,
                   b_strategy, show, custom, use_ai_A>>
    /\ Rerun

NotCalled == [fn |-> "-"]

\* the first script run: CLIENT built or not (lines 24-30), every widget at
\* its default, the button not clicked
Init ==
    /\ CLIENT \in BOOLEAN
    /\ DefaultWidgets
    /\ NoRun
    /\ args = NotCalled
    /\ ret = Pending

Next ==
    \/ SetCompany
    \/ SetWindow
    \/ SetMode
    \/ SetOut
    \/ SetMediaText
    \/ SetPlatformText
    \/ SetStrategy
    \/ ToggleShow
    \/ SetCustom
    \/ ToggleUseAiA
    \/ ToggleUseAiB
    \/ BtnGenerate

Spec == Init /\ [][Next]_vars

-----------------------------------------------------------------------------
(* classify_auto applied to every pair of bounded texts *)

InitClassify ==
    /\ CLIENT = FALSE
    /\ DefaultWidgets
    /\ NoRun
    /\ args \in [ fn : {"classify_auto"},
                  media_text : TextsUpTo(ClassifyAlphabet, MaxMediaLen),
                  platform_text : TextsUpTo(ClassifyAlphabet, MaxPlatformLen) ]
    /\ ret = Pending

CallClassify ==
    /\ args.fn = "classify_auto"
    /\ ret = Pending
    /\ ret' = Returned(classify_auto(args.media_text, args.platform_text))
    /\ UNCHANGED <<CLIENT, widgetVars, runVars, args>>

NextClassify == CallClassify

SpecClassify == InitClassify /\ [][NextClassify]_vars

-----------------------------------------------------------------------------
(* Properties of classify_auto *)

\* kw occurs in s as a run of consecutive characters
Occurs(kw, s) ==
    \E k \in 0..(Len(s) - Len(kw)) : \A j \in 1..Len(kw) : s[k + j] = kw[j]

OccursAny(kws, s) == \E kw \in kws : Occurs(kw, s)

Scanned == args.media_text \o args.platform_text

Classified == args.fn = "classify_auto" /\ ret.returned

EscalateCond == OccursAny(EscalateKeywords, Scanned)
SensitiveCond == OccursAny(SensitiveKeywords \cup SensitiveExtraKeywords, Scanned)
NoiseCond == OccursAny(BigMoveKeywords \cup NoiseKeywords, Scanned)

\* C2 (as stated): an input that is nothing but one regulatory-action keyword
\* (li-an, diao-cha or chu-fa) is not classified escalate.
C2_SingleKeywordNotEscalate ==
    (Classified /\ Scanned \in { <<"li", "an">>, <<"diao", "cha">>, <<"chu", "fa">> })
        => ret.value.mode # "escalate"

\* C2 (amended): classify_auto returns escalate exactly when one of the eight
\* escalate keywords occurs in media_text + platform_text; one keyword alone
\* is enough.
C2_EscalateIffKeyword ==
    Classified => (ret.value.mode = "escalate" <=> EscalateCond)

C2_Witness ==
    /\ Classified
    /\ Scanned = <<"li", "an">>
    /\ ret.value.mode = "escalate"

\* C3 (as stated): ai_like true and neither the escalate nor the sensitive
\* condition holding gives the noise tier.
C3_AiLikeIsNoise ==
    (Classified /\ ret.value.signals.ai_like /\ ~EscalateCond /\ ~SensitiveCond)
        => ret.value.mode = "noise"

\* C3 (amended): the ai_like signal does not take part in the tier decision:
\* with ai_like true and neither the escalate nor the sensitive condition
\* holding, the tier is noise when a big-move or noise keyword occurs and
\* stable otherwise.
C3_AiLikeDoesNotDecide ==
    (Classified /\ ret.value.signals.ai_like /\ ~EscalateCond /\ ~SensitiveCond)
        => ret.value.mode = (IF NoiseCond THEN "noise" ELSE "stable")

C3_Witness ==
    /\ Classified
    /\ Scanned = <<"a", "i">>
    /\ ret.value.signals.ai_like
    /\ ret.value.mode = "stable"

\* C4: two inputs that differ only in letter case get the same tier and the
\* same signals (the input and its lower-cased form are such a pair).
C4_CaseInsensitive ==
    Classified =>
        classify_auto(lower(args.media_text), lower(args.platform_text)) = ret.value

\* C9: the conditions are tested in the order escalate, sensitive, noise,
\* stable and the first that holds decides the tier.
C9_StrictPriority ==
    Classified =>
        ret.value.mode = (IF EscalateCond THEN "escalate"
                    ELSE IF SensitiveCond THEN "sensitive"
                    ELSE IF NoiseCond THEN "noise"
                    ELSE "stable")

C9_Witness ==
    /\ Classified
    /\ ~EscalateCond /\ SensitiveCond /\ NoiseCond
    /\ ret.value.mode = "sensitive"

-----------------------------------------------------------------------------
(* extract_media_posts and render_media_posts_sentence applied to every      *)
(* bounded text (lines 134-135 call them in this order)                      *)

InitExtract ==
    /\ CLIENT = FALSE
    /\ DefaultWidgets
    /\ NoRun
    /\ args \in [ fn : {"extract_media_posts"},
                  text : TextsUpTo(ExtractAlphabet, MaxExtractLen) ]
    /\ ret = Pending

CallExtract ==
    /\ args.fn = "extract_media_posts"
    /\ ~ret.returned
    /\ LET items == extract_media_posts(args.text)
       IN  ret' = Returned([ items |-> items,
                             sentence |-> render_media_posts_sentence(items) ])
    /\ UNCHANGED <<CLIENT, widgetVars, runVars, args>>

NextExtract == CallExtract

SpecExtract == InitExtract /\ [][NextExtract]_vars

Extracted == args.fn = "extract_media_posts" /\ ret.returned

\* ln holds a bracketed title: an opening bracket, at least one character,
\* a closing bracket
HasTitle(ln) ==
    \E a, b \in 1..Len(ln) : a + 1 < b /\ ln[a] = "lq" /\ ln[b] = "rq"

\* C6 (as stated): a title that occurs more than once in the input is
\* returned exactly once: the returned list has no repeated entry.
C6_NoRepeatedTitle ==
    Extracted =>
        \A a, b \in 1..Len(ret.value.items) :
            a # b => ret.value.items[a] # ret.value.items[b]

\* C6 (amended): extract_media_posts does not deduplicate: it returns, in line
\* order, one title for every line that holds a bracketed title, so a title
\* that stands on n lines is returned n times.
C6_OneTitlePerLine ==
    Extracted =>
        LET matching == SelectSeq(splitlines(args.text), HasTitle)
            items == ret.value.items
        IN  /\ Len(items) = Len(matching)
            /\ \A n \in 1..Len(items) :
                    Occurs(<<"lq">> \o items[n] \o <<"rq">>, matching[n])

C6_Witness ==
    /\ Extracted
    /\ args.text = <<"lq", "t", "rq", "\n", "lq", "t", "rq">>
    /\ ret.value.items = << <<"t">>, <<"t">> >>

-----------------------------------------------------------------------------
(* render_B_sections applied to bounded arguments *)

RenderAlphabet == {"lq", "t", "rq"}
SignalDicts == [ai_like : BOOLEAN, sensitive : BOOLEAN, big_move : BOOLEAN]

InitRender ==
    /\ CLIENT = FALSE
    /\ DefaultWidgets
    /\ NoRun
    /\ args \in [ fn : {"render_B_sections"},
                  company : Companies,
                  window : Windows,
                  mode : Tiers,
                  media_text : TextsUpTo(RenderAlphabet, MaxRenderLen),
                  platform_text : {<<>>, <<"t">>},
                  signals : {None} \cup {Some(d) : d \in SignalDicts} ]
    /\ ret = Pending

CallRenderB ==
    /\ args.fn = "render_B_sections"
    /\ ~ret.returned
    /\ ret' = Returned(render_B_sections(args.company, args.window, args.mode,
                            args.media_text, args.platform_text, args.signals))
    /\ UNCHANGED <<CLIENT, widgetVars, runVars, args>>

NextRender == CallRenderB

SpecRender == InitRender /\ [][NextRender]_vars

Rendered == args.fn = "render_B_sections" /\ ret.returned

AiLikeArg == args.signals # None /\ args.signals[1].ai_like

DisclaimerAppended ==
    ret.value.platform[Len(ret.value.platform)] = "lit:ai_like_disclaimer"

\* C5 (as stated): the disclaimer is appended to the platform section when
\* ai_like is true and the tier is stable or noise, and it is not appended
\* when the tier is sensitive or escalate.
C5_DisclaimerOnlyLowTiers ==
    Rendered =>
        /\ (AiLikeArg /\ args.mode \in {"stable", "noise"}) => DisclaimerAppended
        /\ args.mode \in {"sensitive", "escalate"} => ~DisclaimerAppended

\* C5 (amended): the disclaimer is appended to the platform section exactly
\* when a signals dict is passed and its ai_like is true, whatever the tier
\* (sensitive and escalate included), company, window and text.
C5_DisclaimerIffAiLike ==
    Rendered => (DisclaimerAppended <=> AiLikeArg)

C5_Witness ==
    /\ Rendered
    /\ args.mode = "escalate"
    /\ AiLikeArg
    /\ ret.value.platform = <<"lit:B_platform_escalate", "lit:ai_like_disclaimer">>

-----------------------------------------------------------------------------
(* rewrite_A_with_openai and rewrite_B_with_openai applied to bounded texts, *)
(* with and without a client, for each thing the delegate may do             *)

InitRewrite ==
    /\ CLIENT \in BOOLEAN
    /\ DefaultWidgets
    /\ NoRun
    /\ args \in [ fn : {"rewrite_A_with_openai", "rewrite_B_with_openai"},
                  text : TextsUpTo(RewriteAlphabet, MaxRewriteLen),
                  resp : Responses ]
    /\ ret = Pending

CallRewriteA ==
    /\ args.fn = "rewrite_A_with_openai"
    /\ ~ret.returned
    /\ ret' = Returned(rewrite_A_with_openai(args.text, args.resp))
    /\ UNCHANGED <<CLIENT, widgetVars, runVars, args>>

CallRewriteB ==
    /\ args.fn = "rewrite_B_with_openai"
    /\ ~ret.returned
    /\ ret' = Returned(rewrite_B_with_openai(args.text, SectionType("media"), args.resp))
    /\ UNCHANGED <<CLIENT, widgetVars, runVars, args>>

NextRewrite == CallRewriteA \/ CallRewriteB

SpecRewrite == InitRewrite /\ [][NextRewrite]_vars

Rewrote ==
    /\ args.fn \in {"rewrite_A_with_openai", "rewrite_B_with_openai"}
    /\ ret.returned

\* the rewrite failed: no client, or the call raised or gave a blank response
RewriteFailed ==
    \/ ~CLIENT
    \/ strip(args.text) # <<>> /\ args.resp \in {"raise", "blank"}

\* C10 (as stated): on every kind of failure the wrapper returns the text it
\* was given, surfaces a warning, and has called the delegate at most once.
C10_EveryFailureWarns ==
    (Rewrote /\ RewriteFailed) =>
        /\ ret.value.out = args.text
        /\ ret.value.warnings # <<>>
        /\ Len(ret.value.calls) <= 1

\* C10 (amended): on every kind of failure the wrapper returns the text it was
\* given and has called the delegate at most once (not at all without a
\* client); it surfaces a warning only when the call raised: without a client
\* and on a blank response it falls back silently.
C10_FallbackWarnsOnlyOnRaise ==
    Rewrote =>
        /\ Len(ret.value.calls) <= 1
        /\ ~CLIENT => ret.value.calls = <<>>
        /\ RewriteFailed =>
            /\ ret.value.out = args.text
            /\ ret.value.warnings # <<>>
                  <=> (CLIENT /\ strip(args.text) # <<>> /\ args.resp = "raise")

C10_Witness ==
    /\ Rewrote
    /\ CLIENT
    /\ args.text = <<"x">>
    /\ args.resp = "blank"
    /\ ret.value.out = <<"x">>
    /\ ret.value.warnings = <<>>
    /\ Len(ret.value.calls) = 1

-----------------------------------------------------------------------------
(* Properties of the generate handler *)

Generated == pc = "done"

\* the delegate was called in this run and raised or gave a blank response
SomeCallFailed ==
    \E n \in 1..Len(calls) : calls[n].resp \in {"raise", "blank"}

\* the delegate put text on the page in this run
SomeCallSucceeded ==
    \E n \in 1..Len(calls) : calls[n].resp = "text"

CallFailedFor(k) ==
    \E n \in 1..Len(calls) :
        calls[n].to = SectionType(k) /\ calls[n].resp \in {"raise", "blank"}

CalledFor(k) == \E n \in 1..Len(calls) : calls[n].to = SectionType(k)

\* the page shows section k with this body: heading, line break, body, and
\* then the end of the text or the blank line before the next section
ShowsBody(k, body) ==
    LET e == Entry(k, body)
    IN  \E p \in 0..(Len(st_code) - Len(e)) :
            /\ \A j \in 1..Len(e) : st_code[p + j] = e[j]
            /\ \/ p + Len(e) = Len(st_code)
               \/ st_code[p + Len(e) + 1] = "\n"

TemplatedSections ==
    render_B_sections(company, window, final_mode, media_text, platform_text, signals)

AllSignalsFalse == [ai_like |-> FALSE, sensitive |-> FALSE, big_move |-> FALSE]

\* C8: with empty media and platform text in auto mode the tier is stable and
\* every signal is false, and the short form (no company name given, no
\* rewritten text put in its place) is the fixed stable paragraph with the
\* default company name.
C8_EmptyInputIsStable ==
    (Generated /\ mode = "auto" /\ media_text = <<>> /\ platform_text = <<>>) =>
        /\ final_mode = "stable"
        /\ signals = Some(AllSignalsFalse)
        /\ (out = "A" /\ company = <<>> /\ ~SomeCallSucceeded) =>
              st_code =
                (IF strip(window) = <<>>
                 THEN <<"lit:in_period,", "gong", "si", "lit:related_sentiment",
                        "lit:A_stable">>
                 ELSE <<"lit:in_period(">> \o strip(window)
                        \o <<"lit:),", "gong", "si", "lit:related_sentiment",
                             "lit:A_stable">>)

C8_Witness ==
    /\ Generated /\ DefaultWidgets
    /\ final_mode = "stable"
    /\ st_code = <<"lit:in_period,", "gong", "si", "lit:related_sentiment",
                   "lit:A_stable">>

=============================================================================
